---- MODULE Spec2Model ----
(***************************************************************************)
(* A model of the poker hand evaluator (poker_game/game/hand_scorer.py),   *)
(* the card and deck classes it works on (card.py, deck.py) and the part   *)
(* of PokerGame (game_logic.py) that deals the cards and compares the two  *)
(* evaluated hands at the showdown.                                        *)
(***************************************************************************)
EXTENDS Integers, Sequences, FiniteSets, TLC

(***************************************************************************)
(* card.py                                                                 *)
(***************************************************************************)

\* Card.Suit, in declaration order (the order Deck.build iterates in).
Suit == <<"Hearts", "Diamonds", "Clubs", "Spades">>

\* Card.Rank, in declaration order.
Rank == <<"Ace", "2", "3", "4", "5", "6", "7", "8", "9", "10", "Jack", "Queen", "King">>

\* Card.RANK_VALUES
RANK_VALUES ==
    [r \in {Rank[i] : i \in DOMAIN Rank} |->
        CASE r = "Ace" -> 14
          [] r = "2" -> 2
          [] r = "3" -> 3
          [] r = "4" -> 4
          [] r = "5" -> 5
          [] r = "6" -> 6
          [] r = "7" -> 7
          [] r = "8" -> 8
          [] r = "9" -> 9
          [] r = "10" -> 10
          [] r = "Jack" -> 11
          [] r = "Queen" -> 12
          [] r = "King" -> 13]

\* Card.__init__: a card is its rank, its suit and the point value of the rank.
\* Card.__eq__ compares rank and suit, which is equality of these records
\* (point_value is a function of rank).
Card(rank, suit) == [rank |-> rank, suit |-> suit, point_value |-> RANK_VALUES[rank]]

\* The value deal() returns on an empty deck (Python's None).
None == [rank |-> "None", suit |-> "None", point_value |-> 0]

(***************************************************************************)
(* hand_scorer.py: HandType                                                *)
(***************************************************************************)
HIGH_CARD == 1
PAIR == 2
TWO_PAIR == 3
THREE_OF_A_KIND == 4
STRAIGHT == 5
FLUSH == 6
FULL_HOUSE == 7
FOUR_OF_A_KIND == 8
STRAIGHT_FLUSH == 9
ROYAL_FLUSH == 10

(***************************************************************************)
(* Python list helpers                                                     *)
(***************************************************************************)
Min(S) == CHOOSE x \in S : \A y \in S : x <= y

\* s[:n]
Take(s, n) == SubSeq(s, 1, IF n < Len(s) THEN n ELSE Len(s))

\* [card for card in s if card.point_value == v]
WithValue(s, v) == SelectSeq(s, LAMBDA c : c.point_value = v)

\* [card for card in s if card.point_value != v]
WithoutValue(s, v) == SelectSeq(s, LAMBDA c : c.point_value # v)

\* card in s (list membership by Card.__eq__)
InList(c, s) == \E i \in DOMAIN s : s[i] = c

RECURSIVE SortFrom(_, _)
SortFrom(s, v) ==
    IF v < 2 THEN <<>> ELSE WithValue(s, v) \o SortFrom(s, v - 1)

\* sorted(s, key=lambda x: x.point_value, reverse=True): a stable sort, so the
\* cards of one value keep the order they have in s.
SortedDesc(s) == SortFrom(s, 14)

RECURSIVE Pow16(_)
Pow16(n) == IF n = 0 THEN 1 ELSE 16 * Pow16(n - 1)

(***************************************************************************)
(* hand_scorer.py: HandScore                                               *)
(***************************************************************************)

\* HandScore.__init__, line 50: Counter of the point values.
value_counts(cards, v) == Len(WithValue(cards, v))

RECURSIVE ValuesFrom(_, _)
ValuesFrom(cards, v) ==
    IF v < 2 THEN <<>>
    ELSE (IF value_counts(cards, v) > 0 THEN << <<v, value_counts(cards, v)>> >> ELSE <<>>)
         \o ValuesFrom(cards, v - 1)

\* HandScore.__init__, line 51: the (value, count) pairs, highest value first.
sorted_values_and_counts(cards) == ValuesFrom(cards, 14)

RECURSIVE SuitKeys(_)
SuitKeys(cards) ==
    IF cards = <<>> THEN <<>>
    ELSE LET keys == SuitKeys(SubSeq(cards, 1, Len(cards) - 1))
             s == cards[Len(cards)].suit
         IN  IF \E i \in DOMAIN keys : keys[i] = s THEN keys ELSE Append(keys, s)

\* HandScore.__init__, lines 52-54: the cards grouped by suit. A dict keeps its
\* keys in insertion order, so values() lists the suits in the order of their
\* first card in the corpus.
suited_cards(cards) ==
    LET keys == SuitKeys(cards)
    IN  [i \in DOMAIN keys |-> SelectSeq(cards, LAMBDA c : c.suit = keys[i])]

\* The first card of sorted_cards with the given value (lines 208-211).
FirstWithValue(sorted_cards, v) == WithValue(sorted_cards, v)[1]

\* check_straight with the wheel left as it is collected, Ace first (lines
\* 226-227 dropped).
check_straight_ace_first(card_subset) ==
    LET sorted_cards == SortedDesc(card_subset)
        all_point_values == {sorted_cards[i].point_value : i \in DOMAIN sorted_cards}
        high(i) == sorted_cards[i].point_value
        hits == {i \in 1..(Len(sorted_cards) - 4) :
                    /\ high(i) >= 5
                    /\ (high(i) - 4)..high(i) \subseteq all_point_values}
    IN  IF hits # {}
        THEN [k \in 1..5 |-> FirstWithValue(sorted_cards, high(Min(hits)) + 1 - k)]
        ELSE IF {14, 2, 3, 4, 5} \subseteq all_point_values
        THEN <<FirstWithValue(sorted_cards, 14),
               FirstWithValue(sorted_cards, 5),
               FirstWithValue(sorted_cards, 4),
               FirstWithValue(sorted_cards, 3),
               FirstWithValue(sorted_cards, 2)>>
        ELSE <<>>

\* HandScore.check_straight
check_straight(card_subset) ==
    LET sorted_cards == SortedDesc(card_subset)
        all_point_values == {sorted_cards[i].point_value : i \in DOMAIN sorted_cards}
        high(i) == sorted_cards[i].point_value
        hits == {i \in 1..(Len(sorted_cards) - 4) :
                    /\ high(i) >= 5
                    /\ (high(i) - 4)..high(i) \subseteq all_point_values}
    IN  IF hits # {}
        THEN [k \in 1..5 |-> FirstWithValue(sorted_cards, high(Min(hits)) + 1 - k)]
        ELSE IF {14, 2, 3, 4, 5} \subseteq all_point_values
        THEN LET result == <<FirstWithValue(sorted_cards, 14),
                             FirstWithValue(sorted_cards, 5),
                             FirstWithValue(sorted_cards, 4),
                             FirstWithValue(sorted_cards, 3),
                             FirstWithValue(sorted_cards, 2)>>
             IN  Append(Tail(result), Head(result))
        ELSE <<>>

\* HandScore.check_straight_flush
check_straight_flush(cards) ==
    LET groups == suited_cards(cards)
        hits == {i \in DOMAIN groups :
                    Len(groups[i]) >= 5 /\ check_straight(groups[i]) # <<>>}
    IN  IF hits = {} THEN <<>> ELSE check_straight(groups[Min(hits)])

\* check_royal_flush taking any straight flush that holds an Ace.
check_royal_flush_any_ace(cards) ==
    LET straight_flush == check_straight_flush(cards)
    IN  IF /\ straight_flush # <<>>
           /\ \E i \in DOMAIN straight_flush : straight_flush[i].point_value = 14
        THEN straight_flush
        ELSE <<>>

\* HandScore.check_royal_flush
check_royal_flush(cards) ==
    LET straight_flush == check_straight_flush(cards)
    IN  IF /\ straight_flush # <<>>
           /\ straight_flush[1].point_value = 14
           /\ straight_flush[Len(straight_flush)].point_value = 10
        THEN straight_flush
        ELSE <<>>

\* HandScore.check_four_of_a_kind
check_four_of_a_kind(cards) ==
    LET svc == sorted_values_and_counts(cards)
        hits == {i \in DOMAIN svc : svc[i][2] = 4}
    IN  IF hits = {} THEN <<>>
        ELSE LET value == svc[Min(hits)][1]
                 quads == WithValue(cards, value)
                 kickers == Take(SortedDesc(WithoutValue(cards, value)), 1)
             IN  quads \o kickers

\* check_full_house taking the lowest rank held three times as the triple.
check_full_house_lowest_triple(cards) ==
    LET svc == sorted_values_and_counts(cards)
        triples == {i \in DOMAIN svc : svc[i][2] >= 3}
    IN  IF triples = {} THEN <<>>
        ELSE LET triple_value == svc[CHOOSE i \in triples : \A j \in triples : j <= i][1]
                 pairs == {i \in DOMAIN svc : svc[i][1] # triple_value /\ svc[i][2] >= 2}
             IN  IF pairs = {} THEN <<>>
                 ELSE LET pair_value == svc[Min(pairs)][1]
                          triple_cards == Take(WithValue(cards, triple_value), 3)
                          pair_cards == Take(WithValue(cards, pair_value), 2)
                      IN  triple_cards \o pair_cards

\* HandScore.check_full_house
check_full_house(cards) ==
    LET svc == sorted_values_and_counts(cards)
        triples == {i \in DOMAIN svc : svc[i][2] >= 3}
    IN  IF triples = {} THEN <<>>
        ELSE LET triple_value == svc[Min(triples)][1]
                 pairs == {i \in DOMAIN svc : svc[i][1] # triple_value /\ svc[i][2] >= 2}
             IN  IF pairs = {} THEN <<>>
                 ELSE LET pair_value == svc[Min(pairs)][1]
                          triple_cards == Take(WithValue(cards, triple_value), 3)
                          pair_cards == Take(WithValue(cards, pair_value), 2)
                      IN  triple_cards \o pair_cards

\* HandScore.check_flush
check_flush(cards) ==
    LET groups == suited_cards(cards)
        hits == {i \in DOMAIN groups : Len(groups[i]) >= 5}
    IN  IF hits = {} THEN <<>> ELSE Take(SortedDesc(groups[Min(hits)]), 5)

\* HandScore.check_three_of_a_kind
check_three_of_a_kind(cards) ==
    LET svc == sorted_values_and_counts(cards)
        hits == {i \in DOMAIN svc : svc[i][2] = 3}
    IN  IF hits = {} THEN <<>>
        ELSE LET value == svc[Min(hits)][1]
                 three_cards == Take(WithValue(cards, value), 3)
                 kickers == Take(SortedDesc(WithoutValue(cards, value)), 2)
             IN  three_cards \o kickers

\* check_two_pair with the kicker taken from the whole corpus, the two pairs
\* included.
check_two_pair_any_kicker(cards) ==
    LET svc == sorted_values_and_counts(cards)
        pairs == SelectSeq(svc, LAMBDA vc : vc[2] >= 2)
    IN  IF Len(pairs) < 2 THEN <<>>
        ELSE LET pair0 == Take(WithValue(cards, pairs[1][1]), 2)
                 pair1 == Take(WithValue(cards, pairs[2][1]), 2)
                 highest_kicker == Take(SortedDesc(cards), 1)
             IN  pair0 \o pair1 \o highest_kicker

\* HandScore.check_two_pair
check_two_pair(cards) ==
    LET svc == sorted_values_and_counts(cards)
        pairs == SelectSeq(svc, LAMBDA vc : vc[2] >= 2)
    IN  IF Len(pairs) < 2 THEN <<>>
        ELSE LET pair0 == Take(WithValue(cards, pairs[1][1]), 2)
                 pair1 == Take(WithValue(cards, pairs[2][1]), 2)
                 kickers == SelectSeq(cards,
                                LAMBDA c : ~InList(c, pair0) /\ ~InList(c, pair1))
                 highest_kicker == Take(SortedDesc(kickers), 1)
             IN  pair0 \o pair1 \o highest_kicker

\* HandScore.check_pair
check_pair(cards) ==
    LET svc == sorted_values_and_counts(cards)
        hits == {i \in DOMAIN svc : svc[i][2] = 2}
    IN  IF hits = {} THEN <<>>
        ELSE LET value == svc[Min(hits)][1]
                 pair_cards == Take(WithValue(cards, value), 2)
                 kickers == WithoutValue(cards, value)
             IN  pair_cards \o Take(SortedDesc(kickers), 3)

\* score_hand, lines 75-104: the cascade, highest category first. A detector
\* that finds nothing returns None, modelled by the empty list (both are false
\* in the conditions of the cascade).
Cascade(cards) ==
    IF check_royal_flush(cards) # <<>>
    THEN <<ROYAL_FLUSH, check_royal_flush(cards)>>
    ELSE IF check_straight_flush(cards) # <<>>
    THEN <<STRAIGHT_FLUSH, check_straight_flush(cards)>>
    ELSE IF check_four_of_a_kind(cards) # <<>>
    THEN <<FOUR_OF_A_KIND, check_four_of_a_kind(cards)>>
    ELSE IF check_full_house(cards) # <<>>
    THEN <<FULL_HOUSE, check_full_house(cards)>>
    ELSE IF check_flush(cards) # <<>>
    THEN <<FLUSH, check_flush(cards)>>
    ELSE IF check_straight(cards) # <<>>
    THEN <<STRAIGHT, check_straight(cards)>>
    ELSE IF check_three_of_a_kind(cards) # <<>>
    THEN <<THREE_OF_A_KIND, check_three_of_a_kind(cards)>>
    ELSE IF check_two_pair(cards) # <<>>
    THEN <<TWO_PAIR, check_two_pair(cards)>>
    ELSE IF check_pair(cards) # <<>>
    THEN <<PAIR, check_pair(cards)>>
    ELSE <<HIGH_CARD, Take(SortedDesc(cards), 5)>>

RECURSIVE WeightedSum(_)
WeightedSum(scoring_cards) ==
    IF scoring_cards = <<>> THEN 0
    ELSE Head(scoring_cards).point_value * Pow16(Len(scoring_cards) - 1)
         + WeightedSum(Tail(scoring_cards))

\* score_hand with the category on the digit of the first of five cards.
ScoreOf_category_too_low(hand_type, scoring_cards) ==
    WeightedSum(scoring_cards) + hand_type * Pow16(4)

RECURSIVE PlainSum(_)
PlainSum(scoring_cards) ==
    IF scoring_cards = <<>> THEN 0
    ELSE Head(scoring_cards).point_value + PlainSum(Tail(scoring_cards))

\* score_hand with every scoring card given the same weight.
ScoreOf_unweighted(hand_type, scoring_cards) ==
    PlainSum(scoring_cards) + hand_type * Pow16(Len(scoring_cards))

\* score_hand, lines 106-110: the cards are base-16 digits, most significant
\* first, under the category.
ScoreOf(hand_type, scoring_cards) ==
    WeightedSum(scoring_cards) + hand_type * Pow16(Len(scoring_cards))

\* HandScore.score_hand
score_hand(cards) ==
    LET found == Cascade(cards)
    IN  [hand_type |-> found[1],
         score |-> ScoreOf(found[1], found[2]),
         scoring_cards |-> found[2]]

\* HandScore.__init__: the evaluated hand.
HandScore(cards) == score_hand(cards)

\* The wheel is found among the cards of the corpus itself: check_straight is
\* called without a subset (line 90) and takes its last branch.
WheelOfCorpus(cards) ==
    /\ Cascade(cards)[1] = STRAIGHT
    /\ Cascade(cards)[2][5].point_value = 14

\* The corpus after a constructor that sorts self.cards in place on the wheel
\* path and moves the Ace of that list.
cards_after_in_place(cards) ==
    IF WheelOfCorpus(cards)
    THEN Append(Tail(SortedDesc(cards)), Head(SortedDesc(cards)))
    ELSE cards

\* The lists check_straight holds when it returns from the wheel branch.
\* card_subset is the caller's list (self.cards itself after line 193);
\* sorted() on lines 195 and 225 returns new lists, and line 227 pops and
\* appends on the second of them.
wheel_lists(card_subset) ==
    [card_subset |-> card_subset,
     sorted_cards |-> SortedDesc(card_subset),
     result |-> check_straight(card_subset)]

\* The list passed to HandScore, after the constructor. Line 49 keeps a
\* reference to it; the comprehensions, Counter and sorted() build new lists,
\* and the appends of lines 54, 210 and 223 and the pop of line 227 act on
\* lists made inside the methods.
cards_after(cards) ==
    IF WheelOfCorpus(cards) THEN wheel_lists(cards).card_subset ELSE cards

(***************************************************************************)
(* deck.py                                                                 *)
(***************************************************************************)

\* Deck.build: the 52 cards, suit by suit, each suit in rank order.
build ==
    [i \in 1..(Len(Suit) * Len(Rank)) |->
        Card(Rank[((i - 1) % Len(Rank)) + 1], Suit[((i - 1) \div Len(Rank)) + 1])]

\* Deck.__init__
Deck == [cards |-> build, card_set |-> {build[i] : i \in DOMAIN build}]

\* Deck.deal: the last card of the list, or None when the list is empty.
dealt_card(d) == IF Len(d.cards) > 0 THEN d.cards[Len(d.cards)] ELSE None

\* Deck.deal that leaves the card in the list (the pop of line 21 replaced by
\* a read of the last card).
deal_without_pop(d) ==
    IF Len(d.cards) > 0
    THEN [d EXCEPT !.card_set = @ \ {dealt_card(d)}]
    ELSE d

\* Deck.deal: the deck after the call.
deal(d) ==
    IF Len(d.cards) > 0
    THEN [cards |-> SubSeq(d.cards, 1, Len(d.cards) - 1),
          card_set |-> d.card_set \ {dealt_card(d)}]
    ELSE d

\* The k-th card of n successive deal() calls, and the deck after them.
RECURSIVE deal_n(_, _)
deal_n(d, n) == IF n = 0 THEN d ELSE deal_n(deal(d), n - 1)

nth_dealt(d, k) == dealt_card(deal_n(d, k - 1))

\* Deck.return_card
return_card(d, card) ==
    IF card \notin d.card_set
    THEN [cards |-> Append(d.cards, card), card_set |-> d.card_set \cup {card}]
    ELSE d

RECURSIVE return_cards(_, _)
\* Deck.return_cards
return_cards(d, cs) ==
    IF cs = <<>> THEN d ELSE return_cards(return_card(d, Head(cs)), Tail(cs))

\* Bounds of the outcomes of random.shuffle the model draws: the orders that
\* put card number a * (i + b) mod 53 of the built deck at place i, for a
\* multiplier a in 1..ShuffleMults and a cut b in 0..ShuffleCuts - 1.
ShuffleMults == 2
ShuffleCuts == 5

ShuffleOrder(a, b) ==
    [i \in DOMAIN build |->
        build[(a * (((i - 1 + b) % Len(build)) + 1)) % (Len(build) + 1)]]

\* Deck.shuffle: random.shuffle leaves the cards of the list in some order.
shuffle(d, a, b) ==
    [d EXCEPT !.cards = SelectSeq(ShuffleOrder(a, b) \o <<None>>,
                                  LAMBDA c : c \in d.card_set)]

(***************************************************************************)
(* State.  A corpus is put together card by card by the code that calls    *)
(* HandScore and is then handed to the constructor; PokerGame holds the    *)
(* deck, the hands and the outcome of the showdown.                        *)
(***************************************************************************)
VARIABLES
    cards,              \* HandScore.cards: the corpus handed to the constructor
    hs,                 \* the HandScore built from it: hand_type, score, scoring_cards
    scored,             \* TRUE once the constructor has run
    pool,               \* the cards the caller draws the corpus from
    last,               \* position in pool of the last card drawn
    cap,                \* the largest corpus the caller builds
    others,             \* the other HandScore objects, which hs is compared with
    game,               \* the PokerGame object, a record of its fields
    call                \* the last method called on game, what it returned and the
                        \* two HandScore objects it built

bvars == <<cards, hs, scored, pool, last, cap, others>>

gvars == <<game, call>>

vars == <<bvars, gvars>>

\* hs before the constructor has run.
NotScored == [hand_type |-> 0, score |-> 0, scoring_cards |-> <<>>]

\* game in the specifications that build no PokerGame.
NoGame == [absent |-> TRUE]

\* call before any method has been called.
NoCall == [op |-> "None", args |-> <<>>, ret |-> "None", player_score |-> NotScored,
           computer_score |-> NotScored]

(***************************************************************************)
(* The corpora.                                                            *)
(***************************************************************************)

\* The corpus size of the showdown: two hole cards and five community cards.
HandSize == 7

\* Bounds of the pool the corpora are drawn from: in the first suit a run of
\* low ranks (2 up) and a run of high ranks (Ace down), and in the other suits
\* a few cards of the ranks Ace, 5 and King.
NumLowRanks == 5
NumHighRanks == 5
NumSideCards == 7

SideRanks == {"Ace", "5", "King"}

IsLow(c) == c.point_value <= 1 + NumLowRanks

IsHigh(c) == c.point_value >= 15 - NumHighRanks

MainCards == SelectSeq(build, LAMBDA c : c.suit = Suit[1] /\ (IsLow(c) \/ IsHigh(c)))

SideCards ==
    Take(SelectSeq(build, LAMBDA c : c.suit # Suit[1] /\ c.rank \in SideRanks), NumSideCards)

\* The pool, in deck order.
Pool == MainCards \o SideCards

\* A pool of two suits, the low run in the first suit of the deck and the
\* high run in the last, and the size of the largest corpus drawn from it.
WideHandSize == 10

InWidePool(c) ==
    \/ c.suit = Suit[1] /\ IsLow(c)
    \/ c.suit = Suit[Len(Suit)] /\ IsHigh(c)

WidePool == SelectSeq(build, InWidePool)

\* A small pool whose cards are drawn in any order and any number of times.
AnyPoolSize == 5
AnyHandSize == 5

AnyPool == Take(SelectSeq(Pool, LAMBDA c : c.rank \in SideRanks), AnyPoolSize)

(***************************************************************************)
(* The other evaluated hands: hands to compare an evaluated hand with.     *)
(***************************************************************************)
CardOf(v, su) == Card(Rank[IF v = 14 THEN 1 ELSE v], Suit[su])

Hand(vs, sus) == [i \in DOMAIN vs |-> CardOf(vs[i], sus[i])]

Mixed == <<1, 2, 3, 4, 1>>

Suited == <<4, 4, 4, 4, 4>>

\* The weakest and the strongest hand of every category.
ExtremeHands ==
    { Hand(<<2, 3, 4, 5, 7>>, Mixed),       Hand(<<14, 13, 12, 11, 9>>, Mixed),
      Hand(<<2, 2, 3, 4, 5>>, Mixed),       Hand(<<14, 14, 13, 12, 11>>, Mixed),
      Hand(<<3, 3, 2, 2, 4>>, Mixed),       Hand(<<14, 14, 13, 13, 12>>, Mixed),
      Hand(<<2, 2, 2, 3, 4>>, Mixed),       Hand(<<14, 14, 14, 13, 12>>, Mixed),
      Hand(<<14, 2, 3, 4, 5>>, Mixed),      Hand(<<14, 13, 12, 11, 10>>, Mixed),
      Hand(<<2, 3, 4, 5, 7>>, Suited),      Hand(<<14, 13, 12, 11, 9>>, Suited),
      Hand(<<2, 2, 2, 3, 3>>, Mixed),       Hand(<<14, 14, 14, 13, 13>>, Mixed),
      Hand(<<2, 2, 2, 2, 3>>, Mixed),       Hand(<<14, 14, 14, 14, 13>>, Mixed),
      Hand(<<14, 2, 3, 4, 5>>, Suited),     Hand(<<13, 12, 11, 10, 9>>, Suited),
      Hand(<<14, 13, 12, 11, 10>>, Suited) }

\* The cards of Pool of the first two suits with one of a few ranks, and every
\* five-card hand made of them: hands that share most of their ranks.
RivalPool ==
    SelectSeq(Pool, LAMBDA c : c.suit \in {Suit[1], Suit[2]}
                               /\ c.point_value \in {14, 13, 12, 5, 4})

RivalHands ==
    {[k \in 1..5 |-> RivalPool[f[k]]] :
        f \in {g \in [1..5 -> DOMAIN RivalPool] : \A k \in 1..4 : g[k] < g[k + 1]}}

\* The evaluated hands of a set of corpora.
Rivals == {HandScore(c) : c \in ExtremeHands \cup RivalHands}

InitCorpus(p, n) ==
    /\ cards = <<>>
    /\ hs = NotScored
    /\ scored = FALSE
    /\ pool = p
    /\ last = 0
    /\ cap = n
    /\ others = Rivals
    /\ game = NoGame
    /\ call = NoCall

\* The caller adds one more card of the pool to the corpus, in deck order.
AddCard(i) ==
    /\ ~scored
    /\ Len(cards) < cap
    /\ i > last
    /\ cards' = Append(cards, pool[i])
    /\ last' = i
    /\ UNCHANGED <<hs, scored, pool, cap, others, gvars>>

\* The caller adds any card of the pool, in the corpus already or not.
AddAnyCard(i) ==
    /\ ~scored
    /\ Len(cards) < cap
    /\ cards' = Append(cards, pool[i])
    /\ last' = i
    /\ UNCHANGED <<hs, scored, pool, cap, others, gvars>>

\* HandScore(cards): the constructor scores the corpus.
Evaluate ==
    /\ ~scored
    /\ hs' = HandScore(cards)
    /\ scored' = TRUE
    /\ cards' = cards_after(cards)
    /\ UNCHANGED <<pool, last, cap, others, gvars>>

Init == InitCorpus(Pool, HandSize)

Next ==
    \/ \E i \in DOMAIN pool : AddCard(i)
    \/ Evaluate

\* Corpora of up to HandSize distinct cards of Pool.
Spec == Init /\ [][Next]_vars

InitWide == InitCorpus(WidePool, WideHandSize)

\* Corpora of up to WideHandSize distinct cards of WidePool.
SpecWide == InitWide /\ [][Next]_vars

\* The caller hands over the finished corpus in another order: the first card
\* goes to the end of the list. No card is added after that.
Rotate ==
    /\ ~scored
    /\ Len(cards) >= 5
    /\ cards' = Append(Tail(cards), Head(cards))
    /\ last' = Len(pool)
    /\ UNCHANGED <<hs, scored, pool, cap, others, gvars>>

NextOrder ==
    \/ \E i \in DOMAIN pool : AddCard(i)
    \/ Rotate
    \/ Evaluate

\* Corpora of up to WideHandSize distinct cards of WidePool, in every rotation
\* of the order of the deck.
SpecOrder == InitWide /\ [][NextOrder]_vars

InitAny == InitCorpus(AnyPool, AnyHandSize)

NextAny ==
    \/ \E i \in DOMAIN pool : AddAnyCard(i)
    \/ Evaluate

\* Lists of up to AnyHandSize cards of AnyPool, in any order, repeats allowed.
SpecAny == InitAny /\ [][NextAny]_vars

(***************************************************************************)
(* game_logic.py: PokerGame                                                *)
(***************************************************************************)

\* PokerGame.__init__
PokerGame ==
    [deck |-> Deck,
     player_hand |-> <<>>,
     computer_hand |-> <<>>,
     community_cards |-> <<>>,
     burned_cards |-> <<>>,
     game_phase |-> "None",
     pot |-> 0,
     player_chips |-> 1000,
     computer_chips |-> 1000,
     current_bet |-> 0,
     player_bet |-> 0,
     computer_bet |-> 0,
     min_bet |-> 20,
     is_player_big_blind |-> FALSE,
     winner |-> "None",
     winner_hand |-> 0]

\* Bound of the model: the deal methods are not called once the community
\* cards would exceed this number.
MaxCommunity == 6

\* start_new_hand without the return of the burned cards (line 34 dropped).
start_new_hand_keep_burned(g, a, b) ==
    LET d == shuffle(return_cards(return_cards(return_cards(
                g.deck, g.community_cards), g.player_hand),
                g.computer_hand), a, b)
    IN  [g EXCEPT !.deck = deal_n(d, 4),
                  !.burned_cards = <<>>,
                  !.community_cards = <<>>,
                  !.player_hand = <<nth_dealt(d, 1), nth_dealt(d, 3)>>,
                  !.computer_hand = <<nth_dealt(d, 2), nth_dealt(d, 4)>>,
                  !.game_phase = "PREFLOP"]

\* PokerGame.start_new_hand, with the outcome (a, b) of the shuffle.
start_new_hand(g, a, b) ==
    LET d == shuffle(return_cards(return_cards(return_cards(return_cards(
                g.deck, g.burned_cards), g.community_cards), g.player_hand),
                g.computer_hand), a, b)
    IN  [g EXCEPT !.deck = deal_n(d, 4),
                  !.burned_cards = <<>>,
                  !.community_cards = <<>>,
                  !.player_hand = <<nth_dealt(d, 1), nth_dealt(d, 3)>>,
                  !.computer_hand = <<nth_dealt(d, 2), nth_dealt(d, 4)>>,
                  !.game_phase = "PREFLOP"]

\* PokerGame.deal_flop, in the FLOP phase.
deal_flop(g) ==
    [g EXCEPT !.deck = deal_n(g.deck, 4),
              !.burned_cards = Append(g.burned_cards, nth_dealt(g.deck, 1)),
              !.community_cards = g.community_cards \o
                    <<nth_dealt(g.deck, 2), nth_dealt(g.deck, 3), nth_dealt(g.deck, 4)>>]

\* PokerGame.deal_turn and deal_river, in their phase: burn one card, deal one.
deal_one(g) ==
    [g EXCEPT !.deck = deal_n(g.deck, 2),
              !.burned_cards = Append(g.burned_cards, nth_dealt(g.deck, 1)),
              !.community_cards = Append(g.community_cards, nth_dealt(g.deck, 2))]

\* HandScore.__lt__
HandScore_lt(self, other) == self.score < other.score

\* player_score > computer_score: HandScore defines no __gt__, so Python
\* evaluates the reflected computer_score.__lt__(player_score).
HandScore_gt(self, other) == HandScore_lt(other, self)

\* determine_winner, line 105: the winner field.
winner_field(player_score, computer_score) ==
    IF HandScore_gt(player_score, computer_score) THEN "player" ELSE "computer"

\* determine_winner returning the winner without the test for a tie.
winner_returned_no_tie(player_score, computer_score) ==
    IF HandScore_gt(player_score, computer_score) THEN "player" ELSE "computer"

\* determine_winner, lines 111-116: the value returned.
winner_returned(player_score, computer_score) ==
    IF HandScore_gt(player_score, computer_score) THEN "player"
    ELSE IF HandScore_gt(computer_score, player_score) THEN "computer"
    ELSE "tie"

\* determine_winner, lines 99-100: the two corpora.
player_corpus(g) == g.player_hand \o g.community_cards

computer_corpus(g) == g.computer_hand \o g.community_cards

\* HandScore.__init__ reads point_value of every card (line 50), which raises
\* AttributeError on None.
Raises(g) == InList(None, player_corpus(g)) \/ InList(None, computer_corpus(g))

\* determine_winner, lines 99-100: the HandScore of each corpus.
scores(g) ==
    [who \in {"player", "computer"} |->
        HandScore(IF who = "player" THEN player_corpus(g) ELSE computer_corpus(g))]

\* PokerGame.determine_winner in the SHOWDOWN phase, lines 105-106: the game
\* after the call.
determine_winner(g, player_score, computer_score) ==
    [g EXCEPT !.winner = winner_field(player_score, computer_score),
              !.winner_hand =
                    IF winner_field(player_score, computer_score) = "player"
                    THEN player_score.hand_type
                    ELSE computer_score.hand_type]

\* check_betting_round that finds every betting round complete.
check_betting_round_always(g) == g.player_bet = g.player_bet

\* PokerGame.check_betting_round
check_betting_round(g) == g.player_bet = g.computer_bet

\* advance_phase: phase_transitions
phase_transitions(phase) ==
    CASE phase = "PREFLOP" -> "FLOP"
      [] phase = "FLOP" -> "TURN"
      [] phase = "TURN" -> "RIVER"
      [] phase = "RIVER" -> "SHOWDOWN"
      [] phase = "SHOWDOWN" -> "RESULT"
      [] phase = "RESULT" -> "PREFLOP"

\* call after a method that evaluates no hand: its name, arguments and result.
Called(op, args, ret) ==
    [op |-> op, args |-> args, ret |-> ret,
     player_score |-> NotScored, computer_score |-> NotScored]

Returned(op, ret) == Called(op, <<>>, ret)

Unused ==
    /\ cards = <<>>
    /\ hs = NotScored
    /\ scored = FALSE
    /\ pool = <<>>
    /\ last = 0
    /\ cap = 0
    /\ others = {}

InitGame ==
    /\ Unused
    /\ game = PokerGame
    /\ call = NoCall

StartNewHand(a, b) ==
    /\ game' = start_new_hand(game, a, b)
    /\ call' = Returned("start_new_hand", "True")
    /\ UNCHANGED bvars

DealFlop ==
    /\ IF game.game_phase # "FLOP"
       THEN game' = game /\ call' = Returned("deal_flop", "False")
       ELSE /\ Len(game.community_cards) + 3 <= MaxCommunity
            /\ game' = deal_flop(game)
            /\ call' = Returned("deal_flop", "True")
    /\ UNCHANGED bvars

DealTurn ==
    /\ IF game.game_phase # "TURN"
       THEN game' = game /\ call' = Returned("deal_turn", "False")
       ELSE /\ Len(game.community_cards) + 1 <= MaxCommunity
            /\ game' = deal_one(game)
            /\ call' = Returned("deal_turn", "True")
    /\ UNCHANGED bvars

DealRiver ==
    /\ IF game.game_phase # "RIVER"
       THEN game' = game /\ call' = Returned("deal_river", "False")
       ELSE /\ Len(game.community_cards) + 1 <= MaxCommunity
            /\ game' = deal_one(game)
            /\ call' = Returned("deal_river", "True")
    /\ UNCHANGED bvars

\* PokerGame.determine_winner
DetermineWinner ==
    /\ IF game.game_phase # "SHOWDOWN"
       THEN game' = game /\ call' = Returned("determine_winner", "None")
       ELSE IF Raises(game)
       THEN game' = game /\ call' = Returned("determine_winner", "AttributeError")
       ELSE \E s \in {scores(game)} :
            /\ game' = determine_winner(game, s.player, s.computer)
            /\ call' = [op |-> "determine_winner",
                        args |-> <<>>,
                        ret |-> winner_returned(s.player, s.computer),
                        player_score |-> s.player,
                        computer_score |-> s.computer]
    /\ UNCHANGED bvars

\* PokerGame.showdown
Showdown ==
    /\ IF game.game_phase # "SHOWDOWN"
       THEN game' = game /\ call' = Returned("showdown", "False")
       ELSE IF Raises(game)
       THEN game' = game /\ call' = Returned("showdown", "AttributeError")
       ELSE \E s \in {scores(game)} :
            /\ game' = determine_winner(game, s.player, s.computer)
            /\ call' = [op |-> "showdown",
                        args |-> <<>>,
                        ret |-> "True",
                        player_score |-> s.player,
                        computer_score |-> s.computer]
    /\ UNCHANGED bvars

\* PokerGame.advance_phase
AdvancePhase ==
    /\ IF check_betting_round(game) /\ game.game_phase # "None"
       THEN /\ game' = [game EXCEPT !.game_phase = phase_transitions(game.game_phase)]
            /\ call' = Returned("advance_phase", "True")
       ELSE game' = game /\ call' = Returned("advance_phase", "False")
    /\ UNCHANGED bvars

NextGame ==
    \/ \E a \in 1..ShuffleMults, b \in 0..(ShuffleCuts - 1) : StartNewHand(a, b)
    \/ DealFlop
    \/ DealTurn
    \/ DealRiver
    \/ DetermineWinner
    \/ Showdown
    \/ AdvancePhase

\* The methods of a PokerGame called in any order.
SpecGame == InitGame /\ [][NextGame]_vars

\* PokerGame.place_bet: the bet is accepted (lines 120-121, 124-125, 129-130).
place_bet_accepted(g, amount, is_player) ==
    /\ amount >= 0
    /\ amount <= (IF is_player THEN g.player_chips ELSE g.computer_chips)

\* PokerGame.place_bet: the game after the call.
place_bet(g, amount, is_player) ==
    IF ~place_bet_accepted(g, amount, is_player) THEN g
    ELSE LET paid == IF is_player
                     THEN [g EXCEPT !.player_chips = @ - amount,
                                    !.player_bet = @ + amount]
                     ELSE [g EXCEPT !.computer_chips = @ - amount,
                                    !.computer_bet = @ + amount]
         IN  [paid EXCEPT !.pot = @ + amount,
                          !.current_bet = IF paid.player_bet >= paid.computer_bet
                                          THEN paid.player_bet
                                          ELSE paid.computer_bet]

\* award_pot that always leaves the pot empty.
award_pot_pot_cleared(g, winner) ==
    LET split == g.pot \div 2
        paid == IF winner = "player"
                THEN [g EXCEPT !.player_chips = @ + g.pot]
                ELSE IF winner = "computer"
                THEN [g EXCEPT !.computer_chips = @ + g.pot]
                ELSE IF winner = "tie"
                THEN [g EXCEPT !.player_chips = @ + split,
                               !.computer_chips = @ + split]
                ELSE g
    IN  [paid EXCEPT !.pot = 0,
                     !.player_bet = 0,
                     !.computer_bet = 0,
                     !.current_bet = 0]

\* PokerGame.award_pot
award_pot(g, winner) ==
    LET split == g.pot \div 2
        paid == IF winner = "player"
                THEN [g EXCEPT !.player_chips = @ + g.pot]
                ELSE IF winner = "computer"
                THEN [g EXCEPT !.computer_chips = @ + g.pot]
                ELSE IF winner = "tie"
                THEN [g EXCEPT !.player_chips = @ + split,
                               !.computer_chips = @ + split]
                ELSE g
    IN  [paid EXCEPT !.pot = IF g.pot % 2 = 0 THEN 0 ELSE 1,
                     !.player_bet = 0,
                     !.computer_bet = 0,
                     !.current_bet = 0]

\* GameWindow.computer_action: the game after the call.
computer_action(g) ==
    IF g.current_bet > g.computer_bet
    THEN place_bet(g, g.current_bet - g.computer_bet, FALSE)
    ELSE g

\* The amounts the callers of place_bet try: a negative one, a chip, the
\* starting stack of a player and more than a player can ever hold.
Amounts == {-1, 1, 1000, 2000}

\* Bounds of the model: a bet is placed only while both players are within
\* MaxDrift chips of their starting stack, a pot is awarded only when it
\* leaves both players within that distance, and a hand is started with one
\* of TableCuts shuffles.
MaxDrift == 1
TableCuts == 1

StartingChips == PokerGame.player_chips

NearStart(chips) ==
    /\ chips >= StartingChips - MaxDrift
    /\ chips <= StartingChips + MaxDrift

PlaceBet(amount, is_player) ==
    /\ NearStart(game.player_chips)
    /\ NearStart(game.computer_chips)
    /\ game' = place_bet(game, amount, is_player)
    /\ call' = Called("place_bet", <<amount, is_player>>,
                      IF place_bet_accepted(game, amount, is_player)
                      THEN "True" ELSE "False")
    /\ UNCHANGED bvars

AwardPot(winner) ==
    /\ NearStart(award_pot(game, winner).player_chips)
    /\ NearStart(award_pot(game, winner).computer_chips)
    /\ game' = award_pot(game, winner)
    /\ call' = Called("award_pot", <<winner>>, "None")
    /\ UNCHANGED bvars

ComputerAction ==
    /\ game' = computer_action(game)
    /\ call' = Called("computer_action", <<>>, "None")
    /\ UNCHANGED bvars

NextTable ==
    \/ \E b \in 0..(TableCuts - 1) : StartNewHand(1, b)
    \/ DealFlop
    \/ DealTurn
    \/ DealRiver
    \/ AdvancePhase
    \/ \E amount \in Amounts, is_player \in BOOLEAN : PlaceBet(amount, is_player)
    \/ \E winner \in {"player", "computer", "tie"} : AwardPot(winner)

\* The dealing, betting and award methods of a PokerGame, called in any order.
SpecTable == InitGame /\ [][NextTable]_vars

NextBet ==
    \/ \E b \in 0..(TableCuts - 1) : StartNewHand(1, b)
    \/ AdvancePhase
    \/ \E amount \in Amounts, is_player \in BOOLEAN : PlaceBet(amount, is_player)
    \/ \E winner \in {"player", "computer", "tie"} : AwardPot(winner)
    \/ ComputerAction

\* The betting of a PokerGame: hands are started and phases advanced, no
\* community card is dealt.
SpecBet == InitGame /\ [][NextBet]_vars

(***************************************************************************)
(* A deck on its own, as tests/test_deck.py uses it: game holds the Deck   *)
(* and the list of the values deal() has returned.                         *)
(***************************************************************************)

\* Bound of the model: deal() is called at most this often on an empty deck.
MaxEmptyDeals == 1

InitDeck ==
    /\ Unused
    /\ game = [deck |-> Deck, dealt |-> <<>>]
    /\ call = NoCall

\* Deck.shuffle on the full deck.
DeckShuffle(a, b) ==
    /\ game.dealt = <<>>
    /\ game' = [game EXCEPT !.deck = shuffle(game.deck, a, b)]
    /\ call' = Called("shuffle", <<>>, "None")
    /\ UNCHANGED bvars

\* Deck.deal
DeckDeal ==
    /\ Len(game.dealt) < Len(build) + MaxEmptyDeals
    /\ game' = [deck |-> deal(game.deck),
                dealt |-> Append(game.dealt, dealt_card(game.deck))]
    /\ call' = Called("deal", <<>>,
                      IF dealt_card(game.deck) = None THEN "None" ELSE "Card")
    /\ UNCHANGED bvars

NextDeck ==
    \/ \E a \in 1..ShuffleMults, b \in 0..(ShuffleCuts - 1) : DeckShuffle(a, b)
    \/ DeckDeal

SpecDeck == InitDeck /\ [][NextDeck]_vars

(***************************************************************************)
(* The rules of poker, stated on the corpus itself: what the properties    *)
(* below compare the evaluator with.                                       *)
(***************************************************************************)
Max(S) == CHOOSE x \in S : \A y \in S : y <= x

NoDuplicates(s) == \A i, j \in DOMAIN s : i # j => s[i] # s[j]

\* The rank values of a list of cards, in its order.
Ranks(s) == [i \in DOMAIN s |-> s[i].point_value]

\* a before b in lexicographic order (a and b of one length).
LexLess(a, b) ==
    \E i \in DOMAIN a : a[i] < b[i] /\ \A j \in 1..(i - 1) : a[j] = b[j]

CardSet(s) == {s[i] : i \in DOMAIN s}

ValueSet(s) == {s[i].point_value : i \in DOMAIN s}

CountOf(s, v) == Cardinality({i \in DOMAIN s : s[i].point_value = v})

SuitCount(s, su) == Cardinality({i \in DOMAIN s : s[i].suit = su})

SuitSet == {Suit[i] : i \in DOMAIN Suit}

\* The five ranks down from high are all among vals.
HasRun(vals, high) == (high - 4)..high \subseteq vals

Wheel == {14, 2, 3, 4, 5}

Broadway == {14, 13, 12, 11, 10}

\* The values of the cards of one suit.
SuitValues(s, su) == {s[i].point_value : i \in {j \in DOMAIN s : s[j].suit = su}}

HasFlush(s) == \E su \in SuitSet : SuitCount(s, su) >= 5

HasQuads(s) == \E v \in ValueSet(s) : CountOf(s, v) >= 4

HasFullHouse(s) ==
    \E v, w \in ValueSet(s) : v # w /\ CountOf(s, v) >= 3 /\ CountOf(s, w) >= 2

HasRoyal(s) == \E su \in SuitSet : Broadway \subseteq SuitValues(s, su)

HasStraightFlush(s) ==
    \E su \in SuitSet :
        \/ Wheel \subseteq SuitValues(s, su)
        \/ \E high \in 6..14 : HasRun(SuitValues(s, su), high)

Rep(v, n) == [i \in 1..n |-> v]

RECURSIVE ByCount(_, _, _)
\* The rank values of the cards of T, those of the larger groups first and,
\* among groups of one size, the higher rank first.
ByCount(T, n, v) ==
    IF n = 0 THEN <<>>
    ELSE IF v < 2 THEN ByCount(T, n - 1, 14)
    ELSE (IF Cardinality({c \in T : c.point_value = v}) = n THEN Rep(v, n) ELSE <<>>)
         \o ByCount(T, n, v - 1)

\* A five-card hand T under the rules: its category, then its tie-break
\* ranks, most significant first (in a wheel the Ace plays low and is last).
StdHand(T) ==
    LET vals == {c.point_value : c \in T}
        groups == {Cardinality({c \in T : c.point_value = v}) : v \in vals}
        flush == Cardinality({c.suit : c \in T}) = 1
        straight == Cardinality(vals) = 5 /\ (Max(vals) - Min(vals) = 4 \/ vals = Wheel)
        category ==
            CASE straight /\ flush /\ vals = Broadway -> ROYAL_FLUSH
              [] straight /\ flush /\ vals # Broadway -> STRAIGHT_FLUSH
              [] 4 \in groups -> FOUR_OF_A_KIND
              [] groups = {3, 2} -> FULL_HOUSE
              [] flush /\ ~straight -> FLUSH
              [] straight /\ ~flush -> STRAIGHT
              [] groups = {3, 1} -> THREE_OF_A_KIND
              [] groups = {2, 1} /\ Cardinality(vals) = 3 -> TWO_PAIR
              [] groups = {2, 1} /\ Cardinality(vals) = 4 -> PAIR
              [] OTHER -> HIGH_CARD
    IN  <<category>> \o (IF vals = Wheel THEN <<5, 4, 3, 2, 14>> ELSE ByCount(T, 4, 14))

\* The strongest five-card hand a corpus of distinct cards contains.
BestHand(s) ==
    LET hands == {StdHand(T) : T \in {U \in SUBSET CardSet(s) : Cardinality(U) = 5}}
    IN  CHOOSE h \in hands : \A g \in hands : ~LexLess(h, g)

\* What the evaluator found, in the same form.
Found(h) == <<h.hand_type>> \o Ranks(h.scoring_cards)

\* A valid corpus has been evaluated.
Valid == scored /\ Len(cards) >= 5 /\ NoDuplicates(cards)

(***************************************************************************)
(* Properties of the evaluator.                                            *)
(***************************************************************************)

\* The part of the score below the category term.
KickerSum(h) == h.score - h.hand_type * Pow16(Len(h.scoring_cards))

\* C1: category dominance. Whenever an evaluated corpus of at least 5 distinct
\* cards and another evaluated hand differ in category, the one of the higher
\* category has the higher score, whatever the ranks of their scoring cards;
\* the kicker sum of a hand is below 16^5.
CategoryDominance ==
    Valid =>
        /\ KickerSum(hs) < Pow16(5)
        /\ \A r \in others :
            /\ hs.hand_type > r.hand_type => hs.score > r.score
            /\ r.hand_type > hs.hand_type => r.score > hs.score

\* C1 witness: a pair of fives has been compared with
\* an ace-high hand of the category below and with the weakest hand of the
\* category above.
CategoryDominanceWitness ==
    /\ Valid
    /\ hs.hand_type = PAIR
    /\ hs.scoring_cards[1].point_value = 5
    /\ \E r \in others : r.hand_type = HIGH_CARD /\ r.scoring_cards[1].point_value = 14
    /\ \E r \in others : r.hand_type = TWO_PAIR /\ r.scoring_cards[1].point_value = 3

\* C2: best-hand correctness. The category and the tie-break ranks found for a
\* corpus of at least five distinct cards, of any size, are those of the
\* strongest five-card hand the corpus contains under the rules of poker.
BestHandFound ==
    Valid => Found(hs) = BestHand(cards)

\* C3: within one category the order of the scores is the lexicographic order
\* of the rank values of the scoring cards, and two scores are equal exactly
\* when the two rank rows are the same.
LexicographicWithinCategory ==
    Valid =>
        \A r \in others :
            r.hand_type = hs.hand_type =>
                /\ hs.score < r.score
                    <=> LexLess(Ranks(hs.scoring_cards), Ranks(r.scoring_cards))
                /\ r.score < hs.score
                    <=> LexLess(Ranks(r.scoring_cards), Ranks(hs.scoring_cards))
                /\ hs.score = r.score
                    <=> Ranks(hs.scoring_cards) = Ranks(r.scoring_cards)

\* C3 witness: the evaluated hand and a hand of its category agree on the
\* first four ranks and differ in the last, with a higher rank after the
\* lower one in the row.
LexicographicWitness ==
    /\ Valid
    /\ Len(cards) = HandSize
    /\ \E r \in others :
        /\ r.hand_type = hs.hand_type
        /\ \A i \in 1..4 : r.scoring_cards[i].point_value = hs.scoring_cards[i].point_value
        /\ r.scoring_cards[5].point_value > hs.scoring_cards[5].point_value
        /\ hs.scoring_cards[5].point_value < hs.scoring_cards[1].point_value

\* C4: for a corpus of 7 distinct cards the scoring cards are exactly 5, each
\* of them a card of the corpus, and no card is used twice.
FiveScoringCards ==
    (Valid /\ Len(cards) = HandSize) =>
        /\ Len(hs.scoring_cards) = 5
        /\ \A i \in DOMAIN hs.scoring_cards : InList(hs.scoring_cards[i], cards)
        /\ NoDuplicates(hs.scoring_cards)

\* C4 witness: a 7-card corpus with three pairs, where check_two_pair leaves
\* the third pair to the kicker.
FiveScoringCardsWitness ==
    /\ Valid
    /\ Len(cards) = HandSize
    /\ hs.hand_type = TWO_PAIR
    /\ Cardinality({v \in ValueSet(cards) : CountOf(cards, v) = 2}) = 3

\* C5: a corpus of fewer than 5 cards is refused: the evaluation produces no
\* category, no score and no scoring cards.
InsufficientCardsRefused ==
    (scored /\ Len(cards) < 5) => hs = NotScored

\* C6: a corpus holding one card twice is refused: the evaluation produces no
\* category, no score and no scoring cards.
DuplicateCardRefused ==
    (scored /\ ~NoDuplicates(cards)) => hs = NotScored

\* C7: three-way comparison. A call of determine_winner in the SHOWDOWN phase
\* returns "player" exactly when the player's score is the greater, "computer"
\* exactly when the computer's score is the greater and "tie" exactly when the
\* two scores are equal; in any other phase it returns None, evaluates no hand
\* and leaves the game as it was.
ThreeWayComparison ==
    [][call'.op = "determine_winner" =>
        IF game.game_phase = "SHOWDOWN"
        THEN LET player == scores(game).player.score
                 computer == scores(game).computer.score
             IN  /\ call'.ret = "player" <=> player > computer
                 /\ call'.ret = "computer" <=> computer > player
                 /\ call'.ret = "tie" <=> player = computer
                 /\ call'.player_score.score = player
                 /\ call'.computer_score.score = computer
        ELSE /\ call'.ret = "None"
             /\ call'.player_score = NotScored
             /\ call'.computer_score = NotScored
             /\ game' = game]_vars

\* C7 witness: determine_winner has returned "tie" in the SHOWDOWN phase, on
\* two 7-card corpora of equal score.
ThreeWayComparisonWitness ==
    /\ call.op = "determine_winner"
    /\ call.ret = "tie"
    /\ game.game_phase = "SHOWDOWN"
    /\ Len(player_corpus(game)) = HandSize
    /\ call.player_score.score = call.computer_score.score
    /\ call.player_score.hand_type = FLUSH

\* The corpus holds A,2,3,4,5, no run of five ranks with a higher top card, and
\* nothing that makes a category above Straight.
WheelOnly(s) ==
    /\ Wheel \subseteq ValueSet(s)
    /\ \A high \in 6..14 : ~HasRun(ValueSet(s), high)
    /\ ~HasFlush(s)
    /\ ~HasQuads(s)
    /\ ~HasFullHouse(s)

\* C8: wheel straight. Such a corpus evaluates to Straight with the scoring
\* cards in rank order 5,4,3,2,A.
WheelStraight ==
    (Valid /\ WheelOnly(cards)) =>
        /\ hs.hand_type = STRAIGHT
        /\ Ranks(hs.scoring_cards) = <<5, 4, 3, 2, 14>>

\* C8 witness: a 7-card wheel corpus with a second Ace and a King.
WheelStraightWitness ==
    /\ Valid
    /\ WheelOnly(cards)
    /\ Len(cards) = HandSize
    /\ CountOf(cards, 14) = 2
    /\ 13 \in ValueSet(cards)

\* The 7 cards are three of rank x, three of the lower rank y and one more.
TwoTriples(s, x, y) ==
    /\ Len(s) = HandSize
    /\ y < x
    /\ CountOf(s, x) = 3
    /\ CountOf(s, y) = 3

\* C9: full house with two triples. The higher rank makes the triple and the
\* lower rank the pair.
FullHouseOfTwoTriples ==
    Valid =>
        \A x, y \in ValueSet(cards) :
            (TwoTriples(cards, x, y) /\ ~HasStraightFlush(cards)) =>
                /\ hs.hand_type = FULL_HOUSE
                /\ Ranks(hs.scoring_cards) = <<x, x, x, y, y>>

\* C9 witness: three Kings, three Fives and one more card.
FullHouseOfTwoTriplesWitness ==
    /\ Valid
    /\ TwoTriples(cards, 13, 5)
    /\ hs.hand_type = FULL_HOUSE

\* C10: royal flush. A 7-card corpus evaluates to Royal Flush exactly when it
\* holds 10, J, Q, K, A of one suit; with a lower straight flush only (the
\* suited wheel included) it evaluates to Straight Flush.
RoyalFlush ==
    (Valid /\ Len(cards) = HandSize) =>
        /\ hs.hand_type = ROYAL_FLUSH <=> HasRoyal(cards)
        /\ (HasStraightFlush(cards) /\ ~HasRoyal(cards)) => hs.hand_type = STRAIGHT_FLUSH

\* C10 witness: a 7-card corpus with the royal cards of one suit and the
\* wheel cards 2 and 3 of the same suit.
RoyalFlushWitness ==
    /\ Valid
    /\ Len(cards) = HandSize
    /\ HasRoyal(cards)
    /\ hs.hand_type = ROYAL_FLUSH
    /\ \E su \in SuitSet : {2, 3} \subseteq SuitValues(cards, su) /\ 14 \in SuitValues(cards, su)

\* The cards of the corpus in the order of the pool they were taken from.
InPoolOrder(s) == SelectSeq(pool, LAMBDA c : InList(c, s))

\* C11: the evaluation depends only on the set of cards. A corpus of at least
\* 5 distinct cards, handed over in any order, gets the category and the score
\* of the same cards in the order of the pool.
OrderIndependent ==
    Valid =>
        /\ hs.hand_type = HandScore(InPoolOrder(cards)).hand_type
        /\ hs.score = HandScore(InPoolOrder(cards)).score

Held(g) ==
    g.deck.cards \o g.player_hand \o g.computer_hand \o g.community_cards
        \o g.burned_cards

\* The number of places of the list s that hold the card c.
Places(s, c) == Cardinality({k \in DOMAIN s : s[k] = c})

\* C13: card ownership. Whatever methods of the game have been called, each of
\* the 52 cards is in exactly one of the deck, the two hands, the community
\* cards and the burned cards, once.
CardOwnership ==
    \A i \in DOMAIN build : Places(Held(game), build[i]) = 1

\* C13 witness: in a second hand with chips in the pot, the river is out: 5
\* community cards, 3 burned cards, two hands of 2 and 40 cards in the deck.
CardOwnershipWitness ==
    /\ game.game_phase = "RIVER"
    /\ call.op = "deal_river"
    /\ call.ret = "True"
    /\ Len(game.community_cards) = 5
    /\ Len(game.burned_cards) = 3
    /\ Len(game.deck.cards) = 40
    /\ game.pot > 1
    /\ game.player_chips > StartingChips

\* C14: correct card counts. Once a hand has been started, whatever deal and
\* advance methods are called and however often, each player holds exactly 2
\* hole cards and the community cards are at most 5.
CardCounts ==
    game.game_phase # "None" =>
        /\ Len(game.player_hand) = 2
        /\ Len(game.computer_hand) = 2
        /\ Len(game.community_cards) <= 5

\* C15: a new deck holds 52 cards; after k deals, k <= 52, the deck holds
\* 52 - k cards, every value dealt is a card, the dealt cards are pairwise
\* distinct and none of them is still in the deck.
DeckDeals ==
    /\ Len(Deck.cards) = 52
    /\ Len(game.dealt) <= 52 =>
        /\ Len(game.deck.cards) = 52 - Len(game.dealt)
        /\ \A i \in DOMAIN game.dealt :
            /\ InList(game.dealt[i], build)
            /\ ~InList(game.dealt[i], game.deck.cards)
            /\ game.dealt[i] \notin game.deck.card_set
        /\ NoDuplicates(game.dealt)

\* C15 witness: all 52 cards of a shuffled deck have been dealt.
DeckDealsWitness ==
    /\ Len(game.dealt) = 52
    /\ game.deck.cards = <<>>
    /\ game.dealt[1] # build[52]
    /\ call.ret = "Card"

\* The phases of a hand in their order.
PhaseOrder == <<"PREFLOP", "FLOP", "TURN", "RIVER", "SHOWDOWN", "RESULT">>

\* The phase one step after ph, PREFLOP following RESULT.
PhaseAfter(ph) ==
    LET i == CHOOSE k \in DOMAIN PhaseOrder : PhaseOrder[k] = ph
    IN  PhaseOrder[(i % Len(PhaseOrder)) + 1]

\* C16: phase sequencing. advance_phase moves the phase, by exactly one step
\* of the order, when the two bets are equal and a hand has been started, and
\* returns True; otherwise it returns False and leaves the phase as it is.
\* No method brings the game into FLOP, TURN, RIVER or SHOWDOWN other than
\* advance_phase from the phase before, so SHOWDOWN is reached through FLOP,
\* TURN and RIVER in that order.
PhaseSequencing ==
    [][/\ call'.op = "advance_phase" =>
            IF game.player_bet = game.computer_bet /\ game.game_phase # "None"
            THEN /\ call'.ret = "True"
                 /\ game'.game_phase = PhaseAfter(game.game_phase)
            ELSE /\ call'.ret = "False"
                 /\ game'.game_phase = game.game_phase
       /\ (/\ game'.game_phase # game.game_phase
           /\ game'.game_phase \in {"FLOP", "TURN", "RIVER", "SHOWDOWN"}) =>
            /\ call'.op = "advance_phase"
            /\ game.game_phase # "None"
            /\ game'.game_phase = PhaseAfter(game.game_phase)]_vars

\* C16 witness: with the turn card out and unequal bets, advance_phase has
\* returned False in the RIVER phase.
PhaseSequencingWitness ==
    /\ call.op = "advance_phase"
    /\ call.ret = "False"
    /\ game.player_bet # game.computer_bet
    /\ game.game_phase = "RIVER"
    /\ Len(game.community_cards) = 4

\* The chips of both players and of the pot together.
TotalChips(g) == g.player_chips + g.computer_chips + g.pot

\* C17: pot split on a tie. award_pot("tie") adds half the pot, rounded down,
\* to the chips of each player, leaves the odd chip if there is one in the
\* pot and sets the three bets to 0; no chip is created or lost.
PotSplit ==
    [][(call'.op = "award_pot" /\ call'.args = <<"tie">>) =>
        /\ game'.player_chips = game.player_chips + (game.pot \div 2)
        /\ game'.computer_chips = game.computer_chips + (game.pot \div 2)
        /\ game'.pot = game.pot % 2
        /\ game'.player_bet = 0
        /\ game'.computer_bet = 0
        /\ game'.current_bet = 0
        /\ TotalChips(game') = TotalChips(game)]_vars

\* C17 witness: award_pot("tie") has split an odd pot: the odd chip is still
\* in the pot, the bets are 0 and the chips add up to the starting total.
PotSplitWitness ==
    /\ call.op = "award_pot"
    /\ call.args = <<"tie">>
    /\ game.pot = 1
    /\ game.player_chips = StartingChips - 1
    /\ game.computer_chips = StartingChips
    /\ game.player_bet = 0
    /\ TotalChips(game) = 2 * StartingChips

\* C18: the computer calls any bet. When computer_action runs while
\* current_bet exceeds computer_bet, the two bets are equal afterwards.
ComputerCalls ==
    [][(call'.op = "computer_action" /\ game.current_bet > game.computer_bet) =>
        game'.computer_bet = game'.player_bet]_vars

\* C19: chip conservation. Whatever bets have been placed and pots awarded,
\* the chips of the two players and of the pot add up to the starting total
\* of 2000, and no player holds a negative number of chips.
ChipConservation ==
    /\ TotalChips(game) = 2000
    /\ game.player_chips >= 0
    /\ game.computer_chips >= 0

\* C20: the recorded winner agrees with the outcome. After determine_winner
\* has returned "player", "computer" or "tie" in the SHOWDOWN phase, the
\* winner field of the game is the value returned and winner_hand is the
\* category of that winner's hand.
RecordedWinner ==
    (call.op = "determine_winner" /\ call.ret \in {"player", "computer", "tie"}) =>
        /\ game.winner = call.ret
        /\ call.ret = "player" => game.winner_hand = call.player_score.hand_type
        /\ call.ret = "computer" => game.winner_hand = call.computer_score.hand_type

====
